---- MODULE Spec2Model ----
(***************************************************************************)
(* Model of the asset build/watch pipeline of caktus/preen_test:          *)
(* the gulpfile (tasks javascript, watch-js, styles, watch-css, default)  *)
(* and webpack.config.js.                                                 *)
(*                                                                         *)
(* gulp.series runs its tasks one after another and stops at the first    *)
(* task that errors.  gulp.watch (default options: queue = true, a        *)
(* debounce delay, ignoreInitial = true) keeps per watcher a `running`    *)
(* and a `queued` flag: a debounced change that finds the task running    *)
(* sets `queued`, and the completion of a run (failed or not) clears      *)
(* `running` and starts one more run when `queued` is set.                *)
(***************************************************************************)
EXTENDS Integers, Sequences, FiniteSets, TLC

(* ---------------------------------------------------------------------- *)
(* Bounds                                                                 *)
(* ---------------------------------------------------------------------- *)
\* number of file modifications the environment makes
MaxEdits == 3
\* the same when a watch task is invoked on its own (SpecWatch)
MaxEditsWatch == 4
\* the runs of a watcher that the observer may follow
MaxProbe == 2
\* number of file modifications when the default task is followed to its end
\* under fairness (SpecDefault)
MaxEditsDefault == 2

(* ---------------------------------------------------------------------- *)
(* Paths and globs                                                        *)
(* ---------------------------------------------------------------------- *)
Path(dir, name, ext) == [dir |-> dir, name |-> name, ext |-> ext]

JsEntry == Path(<<"preen_test", "assets", "js">>, "webpack_entry", "js")
CssEntry == Path(<<"preen_test", "assets", "styles">>, "tailwind_entry", "css")
TailwindConfig == Path(<<>>, "tailwind.config", "js")
\* variant: the bundle is written one directory up
JsDestDir_Wrong == <<"preen_test", "static">>
JsDestDir == <<"preen_test", "static", "js">>
\* variant: the stylesheet is written next to the bundle
CssDestDir_Wrong == <<"preen_test", "static", "js">>
CssDestDir == <<"preen_test", "static", "css">>
WebpackOutputFilename == Path(<<>>, "main", "js")

\* the glob lists handed to gulp.watch
\* variant: the glob rooted where the entry point lives
WatchJsGlobs_NoApps == {Path(<<"preen_test", "assets", "js", "**">>, "*", "js")}
WatchJsGlobs == {Path(<<"apps", "preen_test", "assets", "js", "**">>, "*", "js")}
WatchCssGlobs ==
    {Path(<<"apps", "preen_test", "**">>, "*", "css"),
     Path(<<>>, "tailwind.config", "js")}

\* files under the watched trees that the environment may modify
AppJs == Path(<<"apps", "preen_test", "assets", "js">>, "app", "js")
AppCss == Path(<<"apps", "preen_test", "assets", "styles">>, "site", "css")

\* rename("main.js") / rename("main.css"): replaces the whole basename
Rename(file, name, ext) == [file EXCEPT !.name = name, !.ext = ext]
\* gulp.dest(dir): the file keeps its relative path below dir
Dest(dir, file) == [file EXCEPT !.dir = dir \o file.dir]

JsOutput == Dest(JsDestDir, Rename(WebpackOutputFilename, "main", "js"))
CssOutput == Dest(CssDestDir, Rename(Path(<<>>, CssEntry.name, CssEntry.ext), "main", "css"))

RECURSIVE DirMatch(_, _)
DirMatch(gs, ps) ==
    IF gs = <<>> THEN ps = <<>>
    ELSE IF Head(gs) = "**"
         THEN DirMatch(Tail(gs), ps) \/ (ps # <<>> /\ DirMatch(gs, Tail(ps)))
         ELSE ps # <<>> /\ Head(gs) = Head(ps) /\ DirMatch(Tail(gs), Tail(ps))

\* variant: a glob that looks at the file name only
GlobMatch_AnyDir(g, p) ==
    /\ (g.name = "*" \/ g.name = p.name)
    /\ g.ext = p.ext
GlobMatch(g, p) ==
    /\ DirMatch(g.dir, p.dir)
    /\ (g.name = "*" \/ g.name = p.name)
    /\ g.ext = p.ext

Watchers == {"watch-js", "watch-css"}
Globs(w) == IF w = "watch-js" THEN WatchJsGlobs ELSE WatchCssGlobs
\* the task bound to the watcher: gulp.series("javascript") / gulp.series('styles')
Bound(w) == IF w = "watch-js" THEN <<"javascript">> ELSE <<"styles">>
Matches(w, p) == \E g \in Globs(w) : GlobMatch(g, p)

SourceFiles == {JsEntry, CssEntry, TailwindConfig, AppJs, AppCss}
OutputFiles == {JsOutput, CssOutput}
Files == SourceFiles \cup OutputFiles

(* ---------------------------------------------------------------------- *)
(* File contents                                                          *)
(* ---------------------------------------------------------------------- *)
Absent == [kind |-> "absent"]
Src(ok, ver) == [kind |-> "source", ok |-> ok, ver |-> ver]
\* what a modification can leave in a file: the entry points have two valid
\* revisions and one with a compile error, the configuration two valid
\* revisions; the content of the other watched files plays no part
Contents(f) ==
    IF f \in {JsEntry, CssEntry} THEN {Src(TRUE, 1), Src(TRUE, 2), Src(FALSE, 1)}
    ELSE IF f = TailwindConfig THEN {Src(TRUE, 1), Src(TRUE, 2)}
    ELSE {Src(TRUE, 1)}

(* ---------------------------------------------------------------------- *)
(* Bundler (webpack.config.js through webpack-stream)                     *)
(* ---------------------------------------------------------------------- *)
\* variant: best-effort bundling
Bail_Off == FALSE
Bail == TRUE

\* the single asset of the single entry chunk; `complete` is FALSE for an
\* artifact emitted although a module failed to compile
Bundle(src, complete) ==
    [kind |-> "bundle", entry |-> src.ver, complete |-> complete,
     provide |-> {"$", "jQuery"}]

\* result of one bundler run on the entry content read: whether the stream
\* errors, and the files it pushes downstream
WebpackCompile(src) ==
    IF src.ok
    THEN [err |-> FALSE,
          files |-> {[file |-> WebpackOutputFilename, content |-> Bundle(src, TRUE)]}]
    ELSE IF Bail
         THEN [err |-> TRUE, files |-> {}]
         ELSE [err |-> TRUE,
               files |-> {[file |-> WebpackOutputFilename, content |-> Bundle(src, FALSE)]}]

(* ---------------------------------------------------------------------- *)
(* Style chain (gulp-postcss with four plugins)                           *)
(* ---------------------------------------------------------------------- *)
\* variant: prefixing placed before utility generation
Plugins_PrefixEarly == <<"postcss-import", "postcss-preset-env", "autoprefixer", "tailwindcss">>
Plugins == <<"postcss-import", "postcss-preset-env", "tailwindcss", "autoprefixer">>

Node(n, v, prefixed) == [n |-> n, v |-> v, prefixed |-> prefixed]

\* the entry stylesheet: an @import of a partial, a @tailwind directive and
\* a plain rule
Parse(src) ==
    <<Node("import", src.ver, FALSE), Node("tailwind", src.ver, FALSE),
      Node("rule", src.ver, FALSE)>>

\* an imported partial uses a utility class
Partial(v) == <<Node("apply", v, FALSE)>>

\* postcss-import: an @import is replaced by the partial it names
PostcssImport(nd) == IF nd.n = "import" THEN Partial(nd.v) ELSE <<nd>>

\* postcss-preset-env bundles autoprefixer: the rules present are prefixed
PresetEnv(nd) == IF nd.n = "rule" THEN <<[nd EXCEPT !.prefixed = TRUE]>> ELSE <<nd>>

\* utility generation from the configuration: directives become generated
\* utilities, utility usages become concrete rules
Tailwind(nd, cfg) ==
    IF nd.n = "tailwind" THEN <<Node("util", cfg.ver, FALSE)>>
    ELSE IF nd.n = "apply" THEN <<Node("rule", nd.v, FALSE)>>
    ELSE <<nd>>

Autoprefixer(nd) ==
    IF nd.n \in {"rule", "util"} THEN <<[nd EXCEPT !.prefixed = TRUE]>> ELSE <<nd>>

TransformNode(name, nd, cfg) ==
    CASE name = "postcss-import" -> PostcssImport(nd)
      [] name = "postcss-preset-env" -> PresetEnv(nd)
      [] name = "tailwindcss" -> Tailwind(nd, cfg)
      [] name = "autoprefixer" -> Autoprefixer(nd)

\* one plugin walks the whole stylesheet
RECURSIVE ApplyPlugin(_, _, _)
ApplyPlugin(name, ast, cfg) ==
    IF ast = <<>> THEN <<>>
    ELSE TransformNode(name, Head(ast), cfg) \o ApplyPlugin(name, Tail(ast), cfg)

Stylesheet(ast) == [kind |-> "stylesheet", nodes |-> ast]

(* ---------------------------------------------------------------------- *)
(* Tasks                                                                  *)
(* ---------------------------------------------------------------------- *)
\* variant: the two compile tasks in the other order
DefaultSeries_Swapped == <<"javascript", "styles", "watch-css", "watch-js">>
DefaultSeries == <<"styles", "javascript", "watch-css", "watch-js">>
Tasks == {"default", "javascript", "styles", "watch-js", "watch-css"}
\* what the command line runs for a task name
TopLevel(t) == IF t = "default" THEN DefaultSeries ELSE <<t>>

Runners == {"cli"} \cup Watchers
NoArt == [kind |-> "none"]


\* the files of the model that lie under each watcher's watched trees
Watched(w) == IF w = "watch-js" THEN {AppJs} ELSE {AppCss, TailwindConfig}

VARIABLES
    fs,       \* file -> content
    invoked,  \* the task named on the command line
    run,      \* runner -> the series it executes and the task in flight
    watch,    \* watcher -> registration, debounce timer, running, queued
    outcome,  \* runner -> how its last series ended
    edits,    \* number of file modifications made so far
    budget,   \* number of file modifications the environment may make
    cliLog,   \* begin/end/error events of the tasks of the command-line series
    events,   \* watcher -> modifications since it was registered: of watched files (hit), of others (miss)
    probe,    \* the number of the run of each watcher that obs follows
    obs       \* watcher -> what happened during and after its probe-th run

vars == <<fs, invoked, run, watch, outcome, edits, budget, cliLog, events, probe, obs>>

Idle == [chain |-> <<>>, idx |-> 0, status |-> "none", phase |-> "idle",
         art |-> NoArt, applied |-> <<>>]
\* a series that has been called and whose first task is about to start
FreshRun(chain) == [chain |-> chain, idx |-> 1, status |-> "running", phase |-> "idle",
                    art |-> NoArt, applied |-> <<>>]
\* starts: invocations of the bound task; active: those not yet completed
Unarmed == [registered |-> FALSE, timer |-> FALSE, running |-> FALSE, queued |-> FALSE,
            starts |-> 0, active |-> 0]
\* phase: "before", "inflight", "after" the probe-th run; ev: watched-file
\* modifications during it; pend0: a debounce timer was pending when it
\* started; lateEv, lateFire: a modification arrived / a timer fired after
\* it; extra: runs started after it
Unobserved == [phase |-> "before", ev |-> 0, pend0 |-> FALSE, lateEv |-> FALSE,
               lateFire |-> FALSE, extra |-> 0]

Start(tasks, n) ==
    /\ invoked \in tasks
    /\ budget = n
    /\ fs \in {g \in [Files -> {Src(TRUE, 1), Src(FALSE, 1), Absent}] :
                 /\ \A f \in OutputFiles : g[f] = Absent
                 /\ \A f \in {JsEntry, CssEntry} : g[f] \in Contents(f)
                 /\ \A f \in SourceFiles \ {JsEntry, CssEntry} : g[f] = Src(TRUE, 1)}
    /\ run = [r \in Runners |-> IF r = "cli" THEN FreshRun(TopLevel(invoked)) ELSE Idle]
    /\ watch = [w \in Watchers |-> Unarmed]
    /\ outcome = [r \in Runners |-> "none"]
    /\ edits = 0
    /\ cliLog = <<>>
    /\ events = [w \in Watchers |-> [hit |-> 0, miss |-> 0]]
    /\ probe \in 1..MaxProbe
    /\ obs = [w \in Watchers |-> Unobserved]

Init == Start(Tasks, MaxEdits)
\* a watch task invoked on its own
InitWatch == Start(Watchers, MaxEditsWatch)

\* the default task, as invoked without a task name
InitDefault == Start({"default"}, MaxEditsDefault)

Current(r) == run[r].chain[run[r].idx]
Ready(r, t) == run[r].status = "running" /\ run[r].phase = "idle" /\ Current(r) = t
Log(r, evs) == cliLog' = IF r = "cli" THEN cliLog \o evs ELSE cliLog

\* variant: a series that goes on after a failed task
SeriesNext_Continue(cur, err) ==
    IF cur.idx < Len(cur.chain)
    THEN [cur EXCEPT !.idx = @ + 1, !.phase = "idle", !.art = NoArt, !.applied = <<>>]
    ELSE [cur EXCEPT !.status = IF err THEN "failed" ELSE "done", !.phase = "idle"]

\* gulp.series: the next state of a series whose current task has ended
SeriesNext(cur, err) ==
    IF err THEN [cur EXCEPT !.status = "failed", !.phase = "idle"]
    ELSE IF cur.idx < Len(cur.chain)
         THEN [cur EXCEPT !.idx = @ + 1, !.phase = "idle", !.art = NoArt, !.applied = <<>>]
         ELSE [cur EXCEPT !.status = "done", !.phase = "idle"]

\* variant: onChange without the running check
OnChange_NoGuard(ws) ==
    [ws EXCEPT !.running = TRUE, !.starts = @ + 1, !.active = @ + 1]

\* variant: onChange that drops a change arriving during a run
OnChange_NoQueue(ws) ==
    IF ws.running
    THEN ws
    ELSE [ws EXCEPT !.running = TRUE, !.starts = @ + 1, !.active = @ + 1]

\* glob-watcher onChange: start the bound task unless it is running
OnChange(ws) ==
    IF ws.running
    THEN [ws EXCEPT !.queued = TRUE]
    ELSE [ws EXCEPT !.running = TRUE, !.starts = @ + 1, !.active = @ + 1]

\* variant: a failed run never clears the running flag
RunComplete_Stuck(ws, err) ==
    LET over == [ws EXCEPT !.running = FALSE, !.active = @ - 1]
    IN  IF err THEN [ws EXCEPT !.active = @ - 1]
        ELSE IF over.queued THEN OnChange([over EXCEPT !.queued = FALSE]) ELSE over

\* glob-watcher runComplete: the run is over, failed or not; a queued
\* change starts the bound task again
RunComplete(ws, err) ==
    LET over == [ws EXCEPT !.running = FALSE, !.active = @ - 1]
    IN  IF over.queued THEN OnChange([over EXCEPT !.queued = FALSE]) ELSE over

\* bookkeeping of obs for a step of watcher w from ws to new
Observe(w, ws, new, edited) ==
    LET o == obs[w]
        started == new.starts > ws.starts
        ended == new.active < ws.active \/ (started /\ ws.active > 0)
        fired == ws.timer /\ ~new.timer
        o1 == IF o.phase = "inflight" /\ ended THEN [o EXCEPT !.phase = "after"] ELSE o
        o2 == IF started /\ new.starts = probe
              THEN [o1 EXCEPT !.phase = "inflight", !.pend0 = new.timer]
              ELSE IF started /\ o1.phase = "after" THEN [o1 EXCEPT !.extra = @ + 1]
              ELSE o1
        o3 == IF edited /\ o.phase = "inflight" THEN [o2 EXCEPT !.ev = @ + 1]
              ELSE IF edited /\ o.phase = "after" THEN [o2 EXCEPT !.lateEv = TRUE]
              ELSE o2
    IN  IF fired /\ o.phase = "after" THEN [o3 EXCEPT !.lateFire = TRUE] ELSE o3

\* the current task of runner r has ended; for a watcher's series the end of
\* the series is the end of the watcher's run
Finish(r, err) ==
    LET nxt == SeriesNext(run[r], err)
        over == nxt.status \in {"done", "failed"}
    IN  /\ outcome' = [outcome EXCEPT ![r] = IF over THEN nxt.status ELSE @]
        /\ IF r \in Watchers /\ over
           THEN /\ watch' = [watch EXCEPT ![r] = RunComplete(@, err)]
                /\ run' = [run EXCEPT ![r] = IF watch'[r].starts > watch[r].starts
                                             THEN FreshRun(Bound(r)) ELSE nxt]
                /\ obs' = [obs EXCEPT ![r] = Observe(r, watch[r], watch'[r], FALSE)]
           ELSE /\ run' = [run EXCEPT ![r] = nxt]
                /\ UNCHANGED <<watch, obs>>

\* task 'javascript': gulp.src reads the entry and hands it to the bundler
StartJavascript ==
    \E r \in Runners :
        /\ Ready(r, "javascript")
        /\ run' = [run EXCEPT ![r].phase = "compiling", ![r].art = fs[JsEntry]]
        /\ Log(r, <<<<"javascript", "begin">>>>)
        /\ UNCHANGED <<fs, invoked, watch, outcome, edits, budget, events, probe, obs>>

\* the bundler ends: its files are renamed and written, or the stream errors
FinishJavascript ==
    \E r \in Runners :
        /\ run[r].status = "running" /\ run[r].phase = "compiling"
        /\ Current(r) = "javascript"
        /\ LET res == WebpackCompile(run[r].art)
               out(x) == Dest(JsDestDir, Rename(x.file, "main", "js"))
           IN  /\ fs' = [f \in Files |->
                          IF \E x \in res.files : out(x) = f
                          THEN (CHOOSE x \in res.files : out(x) = f).content
                          ELSE fs[f]]
               /\ Finish(r, res.err)
               /\ Log(r, <<<<"javascript", IF res.err THEN "error" ELSE "end">>>>)
        /\ UNCHANGED <<invoked, edits, budget, events, probe>>

\* task 'styles': gulp.src reads the entry stylesheet
StartStyles ==
    \E r \in Runners :
        /\ Ready(r, "styles")
        /\ run' = [run EXCEPT ![r].phase = "read", ![r].art = fs[CssEntry]]
        /\ Log(r, <<<<"styles", "begin">>>>)
        /\ UNCHANGED <<fs, invoked, watch, outcome, edits, budget, events, probe, obs>>

\* gulp-postcss parses the stylesheet; a syntax error fails the task
StylesParse ==
    \E r \in Runners :
        /\ run[r].status = "running" /\ run[r].phase = "read"
        /\ IF run[r].art.ok
           THEN /\ run' = [run EXCEPT ![r].phase = "chain", ![r].art = Parse(@)]
                /\ UNCHANGED <<watch, outcome, cliLog, obs>>
           ELSE /\ Finish(r, TRUE)
                /\ Log(r, <<<<"styles", "error">>>>)
        /\ UNCHANGED <<fs, invoked, edits, budget, events, probe>>

\* the next plugin of the list transforms the stylesheet
StylesPlugin ==
    \E r \in Runners :
        /\ run[r].status = "running" /\ run[r].phase = "chain"
        /\ Len(run[r].applied) < Len(Plugins)
        /\ LET name == Plugins[Len(run[r].applied) + 1]
           IN  run' = [run EXCEPT ![r].art = ApplyPlugin(name, @, fs[TailwindConfig]),
                                  ![r].applied = Append(@, name)]
        /\ UNCHANGED <<fs, invoked, watch, outcome, edits, budget, cliLog, events, probe, obs>>

\* rename("main.css") and gulp.dest write the result
StylesWrite ==
    \E r \in Runners :
        /\ run[r].status = "running" /\ run[r].phase = "chain"
        /\ Len(run[r].applied) = Len(Plugins)
        /\ LET out == Dest(CssDestDir,
                           Rename(Path(<<>>, CssEntry.name, CssEntry.ext), "main", "css"))
           IN  fs' = [f \in Files |-> IF f = out THEN Stylesheet(run[r].art) ELSE fs[f]]
        /\ Finish(r, FALSE)
        /\ Log(r, <<<<"styles", "end">>>>)
        /\ UNCHANGED <<invoked, edits, budget, events, probe>>

\* variant: a watch task that never calls done()
StartWatch_NoDone ==
    \E r \in Runners, w \in Watchers :
        /\ Ready(r, w)
        /\ watch' = [watch EXCEPT ![w].registered = TRUE]
        /\ Log(r, <<<<w, "begin">>>>)
        /\ UNCHANGED <<fs, invoked, run, outcome, edits, budget, events, probe, obs>>

\* variant: a watcher that reports the files present when it is registered
StartWatch_Initial ==
    \E r \in Runners, w \in Watchers :
        /\ Ready(r, w)
        /\ watch' = [watch EXCEPT ![w].registered = TRUE, ![w].timer = TRUE]
        /\ LET nxt == SeriesNext(run[r], FALSE)
           IN  /\ run' = [run EXCEPT ![r] = nxt]
               /\ outcome' = [outcome EXCEPT ![r] = IF nxt.status = "done" THEN "done" ELSE @]
        /\ Log(r, <<<<w, "begin">>, <<w, "end">>>>)
        /\ UNCHANGED <<fs, invoked, edits, budget, events, probe, obs>>

\* tasks 'watch-js' and 'watch-css': gulp.watch registers the watcher and
\* done() ends the task at once
StartWatch ==
    \E r \in Runners, w \in Watchers :
        /\ Ready(r, w)
        /\ watch' = [watch EXCEPT ![w].registered = TRUE]
        /\ LET nxt == SeriesNext(run[r], FALSE)
           IN  /\ run' = [run EXCEPT ![r] = nxt]
               /\ outcome' = [outcome EXCEPT ![r] = IF nxt.status = "done" THEN "done" ELSE @]
        /\ Log(r, <<<<w, "begin">>, <<w, "end">>>>)
        /\ UNCHANGED <<fs, invoked, edits, budget, events, probe, obs>>

\* the environment saves a file (with new or with the same content); every
\* registered watcher whose globs match it (re)arms its debounce timer
Edit ==
    \E f \in SourceFiles : \E c \in Contents(f) :
        /\ edits < budget
        /\ edits' = edits + 1
        /\ fs' = [fs EXCEPT ![f] = c]
        /\ watch' = [w \in Watchers |->
                       IF watch[w].registered /\ Matches(w, f)
                       THEN [watch[w] EXCEPT !.timer = TRUE] ELSE watch[w]]
        /\ events' = [w \in Watchers |->
                        IF ~watch[w].registered THEN events[w]
                        ELSE IF f \in Watched(w) THEN [events[w] EXCEPT !.hit = @ + 1]
                        ELSE [events[w] EXCEPT !.miss = @ + 1]]
        /\ obs' = [w \in Watchers |->
                     Observe(w, watch[w], watch'[w], watch[w].registered /\ f \in Watched(w))]
        /\ UNCHANGED <<invoked, run, outcome, budget, cliLog, probe>>

\* variant: one running flag shared by the two watchers
TimerFire_Shared ==
    \E w \in Watchers :
        /\ watch[w].timer
        /\ watch' = [watch EXCEPT ![w] =
                       IF \E o \in Watchers : watch[o].running
                       THEN [@ EXCEPT !.timer = FALSE, !.queued = TRUE]
                       ELSE OnChange([@ EXCEPT !.timer = FALSE])]
        /\ run' = [run EXCEPT ![w] = IF watch'[w].starts > watch[w].starts
                                     THEN FreshRun(Bound(w)) ELSE @]
        /\ obs' = [obs EXCEPT ![w] = Observe(w, watch[w], watch'[w], FALSE)]
        /\ UNCHANGED <<fs, invoked, outcome, edits, budget, cliLog, events, probe>>

\* the debounce delay of a watcher expires: onChange runs
TimerFire ==
    \E w \in Watchers :
        /\ watch[w].timer
        /\ watch' = [watch EXCEPT ![w] = OnChange([@ EXCEPT !.timer = FALSE])]
        /\ run' = [run EXCEPT ![w] = IF watch'[w].starts > watch[w].starts
                                     THEN FreshRun(Bound(w)) ELSE @]
        /\ obs' = [obs EXCEPT ![w] = Observe(w, watch[w], watch'[w], FALSE)]
        /\ UNCHANGED <<fs, invoked, outcome, edits, budget, cliLog, events, probe>>

Next ==
    \/ StartJavascript
    \/ FinishJavascript
    \/ StartStyles
    \/ StylesParse
    \/ StylesPlugin
    \/ StylesWrite
    \/ StartWatch
    \/ Edit
    \/ TimerFire

Spec == Init /\ [][Next]_vars
SpecWatch == InitWatch /\ [][Next]_vars
\* a series calls its next task as soon as the previous one has completed
SpecDefault == InitDefault /\ [][Next]_vars /\ WF_vars(StartWatch)

\* no timer pending, no run in flight, nothing queued
Quiescent(w) == ~watch[w].timer /\ ~watch[w].running /\ ~watch[w].queued

TypeOK ==
    /\ edits \in 0..budget
    /\ \A w \in Watchers : watch[w].queued => watch[w].running
    /\ \A w \in Watchers : watch[w].running <=> run[w].status = "running"

(* ---------------------------------------------------------------------- *)
(* Properties                                                             *)
(* ---------------------------------------------------------------------- *)
HasEv(e) == \E i \in DOMAIN cliLog : cliLog[i] = e
Count(e) == Cardinality({i \in DOMAIN cliLog : cliLog[i] = e})
\* every occurrence of b in the log comes after an occurrence of a
Precedes(a, b) ==
    \A k \in DOMAIN cliLog : cliLog[k] = b => \E i \in 1..(k - 1) : cliLog[i] = a
Other(w) == IF w = "watch-js" THEN "watch-css" ELSE "watch-js"
\* the step ends the compile task of runner r with a compile error
Fails(r) ==
    /\ run[r].status = "running" /\ run[r].phase \in {"compiling", "read"}
    /\ ~run[r].art.ok
    /\ run'[r] # run[r]

\* C1: in the default series 'styles' has completed (and written its
\* output) before 'javascript' begins, and 'javascript' has completed
\* before either watcher is registered.
C1_Ordering ==
    invoked = "default" =>
        /\ Precedes(<<"styles", "end">>, <<"javascript", "begin">>)
        /\ \A w \in Watchers : Precedes(<<"javascript", "end">>, <<w, "begin">>)
        /\ (run["cli"].phase = "compiling" => fs[CssOutput].kind = "stylesheet")
        /\ \A w \in Watchers :
             watch[w].registered =>
                 /\ HasEv(<<"styles", "end">>) /\ HasEv(<<"javascript", "end">>)
                 /\ fs[JsOutput].kind = "bundle"
C1_Witness == invoked = "default" /\ \A w \in Watchers : watch[w].registered

\* C2: in the default series a failed 'styles' means 'javascript' never
\* begins and no watcher is registered; a failed 'javascript' means no
\* watcher is registered; the failed task is not run again.
C2_Halt ==
    invoked = "default" =>
        /\ HasEv(<<"styles", "error">>) =>
               /\ ~HasEv(<<"javascript", "begin">>)
               /\ \A w \in Watchers : ~watch[w].registered /\ ~HasEv(<<w, "begin">>)
               /\ Count(<<"styles", "begin">>) = 1
               /\ run["cli"].status = "failed"
        /\ HasEv(<<"javascript", "error">>) =>
               /\ \A w \in Watchers : ~watch[w].registered /\ ~HasEv(<<w, "begin">>)
               /\ Count(<<"javascript", "begin">>) = 1
               /\ run["cli"].status = "failed"
C2_Witness ==
    /\ invoked = "default" /\ HasEv(<<"javascript", "error">>)
    /\ run["cli"].status = "failed" /\ edits > 0

\* C3: a 'javascript' run that read an entry with a compile error ends in
\* failure and changes no file: the JS output stays absent or stays the
\* previous output, and no incomplete bundle is written.
C3_StrictFail ==
    [][\A r \in Runners :
          Fails(r) /\ run[r].phase = "compiling" =>
              /\ outcome'[r] = "failed"
              /\ fs' = fs
              /\ (fs'[JsOutput] = Absent \/ fs'[JsOutput].complete)]_vars
C3_Witness == outcome["watch-js"] = "failed" /\ fs[JsOutput].kind = "bundle"

\* C4 as stated: per watcher at most one run of the bound task is in
\* progress, and the modifications that arrive during one in-flight run
\* (none arriving after it) are followed by at most one additional run.
C4_Original ==
    \A w \in Watchers :
        /\ watch[w].active <= 1
        /\ (obs[w].phase = "after" /\ ~obs[w].lateEv => obs[w].extra <= 1)
\* C4 amended: per watcher at most one run of the bound task is in
\* progress, and when no debounce timer expires after an in-flight run has
\* finished, at most one additional run follows it, however many
\* modifications arrived and timers expired during it.
C4_Serialized ==
    \A w \in Watchers :
        /\ watch[w].active <= 1
        /\ (watch[w].running <=> watch[w].active = 1)
        /\ (obs[w].phase = "after" /\ ~obs[w].lateFire => obs[w].extra <= 1)
C4_Witness ==
    \E w \in Watchers :
        /\ obs[w].phase = "after" /\ obs[w].ev >= 2 /\ ~obs[w].lateFire
        /\ obs[w].extra = 1 /\ Quiescent(w)

\* C5 as stated: a single modification of a watched file during the
\* in-flight run, none after it: once the watcher is idle again exactly one
\* more run has been started.
C5_Original ==
    \A w \in Watchers :
        obs[w].phase = "after" /\ obs[w].ev = 1 /\ ~obs[w].lateEv /\ Quiescent(w)
            => obs[w].extra = 1
\* C5 amended: the same when no debounce timer of an earlier modification
\* was pending as the in-flight run started; and a modification during a
\* run is never lost: the watcher is not idle again before a further run.
C5_Deferred ==
    \A w \in Watchers :
        /\ obs[w].phase = "after" /\ obs[w].ev = 1 /\ ~obs[w].lateEv /\ Quiescent(w)
             /\ ~obs[w].pend0 => obs[w].extra = 1
        /\ obs[w].phase = "after" /\ obs[w].ev >= 1 /\ Quiescent(w) => obs[w].extra >= 1
C5_Witness ==
    \E w \in Watchers :
        /\ obs[w].phase = "after" /\ obs[w].ev = 1 /\ ~obs[w].lateEv /\ ~obs[w].pend0
        /\ Quiescent(w) /\ obs[w].extra = 1

\* C6: watch-js starts no run of 'javascript' without a modification of a
\* file under its glob: runs started never exceed such modifications,
\* modifications of other files start none, and after exactly one such
\* modification the idle watcher has started exactly one run.
C6_Trigger ==
    LET w == "watch-js" IN
        /\ watch[w].starts <= events[w].hit
        /\ (run[w].status # "none" => run[w].chain = <<"javascript">>)
        /\ (Quiescent(w) /\ events[w].hit = 1 => watch[w].starts = 1)
        /\ (events[w].hit = 0 => ~watch[w].timer /\ ~watch[w].running)
C6_Witness ==
    LET w == "watch-js" IN
        /\ watch[w].registered /\ Quiescent(w)
        /\ events[w].hit = 1 /\ events[w].miss >= 1 /\ watch[w].starts = 1

\* C7: a failed run of a watcher ends the run and leaves the watcher
\* registered; without a queued change no run is started by the failure;
\* after the failure a modification of a watched file arms the timer and
\* its expiry starts a new run of the bound task.
C7_StaysArmed ==
    [][\A w \in Watchers :
          /\ Fails(w) =>
                 /\ watch'[w].registered
                 /\ outcome'[w] = "failed"
                 /\ (~watch[w].queued =>
                        /\ ~watch'[w].running /\ watch'[w].active = 0
                        /\ watch'[w].starts = watch[w].starts
                        /\ run'[w].status = "failed")
          /\ outcome[w] = "failed" /\ ~watch[w].running =>
                 /\ (events'[w].hit > events[w].hit => watch'[w].timer)
                 /\ (watch[w].timer /\ ~watch'[w].timer =>
                        /\ watch'[w].running
                        /\ watch'[w].starts = watch[w].starts + 1
                        /\ run'[w] = FreshRun(Bound(w)))]_vars
C7_Witness ==
    \E w \in Watchers :
        /\ outcome[w] = "failed" /\ watch[w].running /\ watch[w].starts = probe + 1
        /\ obs[w].phase = "after" /\ obs[w].ev = 0 /\ ~obs[w].pend0 /\ obs[w].lateFire

\* C8: a watcher whose timer expires while its own task is not running
\* starts its task whatever the other watcher is doing, and a step that
\* starts, queues or ends a run of one watcher leaves the other watcher and
\* its run untouched.
C8_Independent ==
    [][\A w \in Watchers :
          /\ watch[w].timer /\ ~watch'[w].timer /\ ~watch[w].running =>
                 watch'[w].running /\ run'[w] = FreshRun(Bound(w))
          /\ (\/ watch'[w].starts # watch[w].starts
              \/ watch'[w].queued # watch[w].queued
              \/ watch'[w].running # watch[w].running) =>
                 watch'[Other(w)] = watch[Other(w)] /\ run'[Other(w)] = run[Other(w)]]_vars
C8_Witness ==
    /\ run["watch-js"].phase = "compiling" /\ run["watch-css"].phase = "chain"
    /\ \A w \in Watchers : watch[w].running

\* C9: a 'javascript' run that read a valid entry changes no file but
\* ./preen_test/static/js/main.js, leaves there the complete bundle of the
\* entry it read, and leaves the file as it was when the previous output
\* had been built from the same entry content.
C9_Output ==
    [][\A r \in Runners :
          (/\ run[r].status = "running" /\ run[r].phase = "compiling"
           /\ run[r].art.ok /\ run'[r] # run[r]) =>
              LET P == Path(<<"preen_test", "static", "js">>, "main", "js") IN
                  /\ P \in DOMAIN fs /\ DOMAIN fs' = DOMAIN fs
                  /\ \A f \in DOMAIN fs : f # P => fs'[f] = fs[f]
                  /\ fs'[P].kind = "bundle" /\ fs'[P].complete
                  /\ fs'[P].entry = run[r].art.ver
                  /\ (fs[P].kind = "bundle" /\ fs[P].entry = run[r].art.ver
                        => fs'[P] = fs[P])
                  /\ outcome'[r] # "failed"]_vars
C9_Witness ==
    /\ invoked = "default" /\ outcome["watch-js"] = "done" /\ edits = 1
    /\ fs[JsOutput] = Bundle(fs[JsEntry], TRUE)

\* C10: in every 'styles' run utility generation is applied only after
\* import resolution, vendor prefixing only after all three other
\* transforms and as the last one; so every rule of a written stylesheet
\* is prefixed and no import or directive is left in it.
C10_Order ==
    /\ \A r \in Runners :
         LET a == run[r].applied IN
             \A i \in DOMAIN a :
                 /\ a[i] = "tailwindcss" => \E j \in 1..(i - 1) : a[j] = "postcss-import"
                 /\ a[i] = "autoprefixer" =>
                        /\ i = Len(a)
                        /\ {a[j] : j \in 1..(i - 1)} =
                             {"postcss-import", "postcss-preset-env", "tailwindcss"}
    /\ fs[CssOutput].kind = "stylesheet" =>
           \A i \in DOMAIN fs[CssOutput].nodes :
               /\ fs[CssOutput].nodes[i].n \in {"rule", "util"}
               /\ fs[CssOutput].nodes[i].prefixed
C10_Witness ==
    \E w \in Watchers :
        /\ Len(run[w].applied) = 4 /\ run[w].applied[4] = "autoprefixer"
        /\ fs[CssOutput].kind = "stylesheet"

\* the files whose content the step changes
Changed == {f \in DOMAIN fs : fs'[f] # fs[f]}
\* the step is one of runner r executing task t
Moves(r, t) == run[r].status = "running" /\ Current(r) = t /\ run'[r] # run[r]

\* C11: a step of the pipeline (any step but a save by the environment)
\* changes no source file; a step of a 'javascript' run changes no file but
\* ./preen_test/static/js/main.js, a step of a 'styles' run no file but
\* ./preen_test/static/css/main.css, the watch tasks and the watchers'
\* timers change no file; so no file is written by both compile tasks.
C11_Frame ==
    [][edits' = edits =>
          LET JsP == Path(<<"preen_test", "static", "js">>, "main", "js")
              CssP == Path(<<"preen_test", "static", "css">>, "main", "css")
          IN  /\ DOMAIN fs' = DOMAIN fs
              /\ Changed \cap SourceFiles = {}
              /\ \A r \in Runners :
                     /\ Moves(r, "javascript") => Changed \subseteq {JsP}
                     /\ Moves(r, "styles") => Changed \subseteq {CssP}
                     /\ (\E w \in Watchers : Moves(r, w)) => Changed = {}
              /\ (\A r \in Runners : ~Moves(r, "javascript") /\ ~Moves(r, "styles"))
                     => Changed = {}]_vars
C11_Witness ==
    /\ \A w \in Watchers : outcome[w] = "done" /\ watch[w].starts >= 1
    /\ fs[JsOutput].kind = "bundle" /\ fs[CssOutput].kind = "stylesheet"
    /\ \A f \in SourceFiles : fs[f].kind = "source"

\* C12: a watch task has completed as soon as its watcher is registered,
\* and a registered watcher stays registered; in the default series
\* watch-css is registered before watch-js, and once 'javascript' has
\* succeeded both watchers get registered and the series completes.
C12_WatchDone ==
    /\ [](\A w \in Watchers : watch[w].registered => HasEv(<<w, "end">>))
    /\ [](invoked = "default" =>
             /\ (watch["watch-js"].registered => watch["watch-css"].registered)
             /\ Precedes(<<"watch-css", "end">>, <<"watch-js", "begin">>)
             /\ (outcome["cli"] = "done" => \A w \in Watchers : watch[w].registered))
    /\ [][\A w \in Watchers : watch[w].registered => watch'[w].registered]_vars
    /\ ((invoked = "default" /\ HasEv(<<"javascript", "end">>))
           ~> (outcome["cli"] = "done" /\ \A w \in Watchers : watch[w].registered))
C12_Witness ==
    /\ invoked = "default" /\ outcome["cli"] = "done"
    /\ \A w \in Watchers : watch[w].registered
    /\ outcome["watch-css"] = "done"

\* C13: neither entry point is matched by a glob of either watcher, the
\* style configuration is matched by watch-css only; a save of an entry
\* point leaves both watchers as they were (no timer, no run), a save of
\* the configuration arms the timer of a registered watch-css and leaves
\* watch-js as it was.
C13_EntriesUnwatched ==
    [][LET JsE == Path(<<"preen_test", "assets", "js">>, "webpack_entry", "js")
           CssE == Path(<<"preen_test", "assets", "styles">>, "tailwind_entry", "css")
           Cfg == Path(<<>>, "tailwind.config", "js")
       IN  /\ \A w \in Watchers : ~Matches(w, JsE) /\ ~Matches(w, CssE)
           /\ Matches("watch-css", Cfg) /\ ~Matches("watch-js", Cfg)
           /\ (fs'[JsE] # fs[JsE] \/ fs'[CssE] # fs[CssE]) => watch' = watch /\ run' = run
           /\ fs'[Cfg] # fs[Cfg] =>
                  /\ watch'["watch-js"] = watch["watch-js"]
                  /\ (watch["watch-css"].registered => watch'["watch-css"].timer)]_vars
C13_Witness ==
    /\ invoked = "default" /\ edits = 2
    /\ fs[JsEntry] = Src(TRUE, 2) /\ fs[CssEntry] = Src(TRUE, 2)
    /\ \A w \in Watchers :
           /\ events[w].miss = 2 /\ events[w].hit = 0
           /\ watch[w].registered /\ Quiescent(w) /\ watch[w].starts = 0

\* the stylesheet that a 'styles' run makes of an entry and a configuration
RECURSIVE ChainFrom(_, _, _)
ChainFrom(i, ast, cfg) ==
    IF i > Len(Plugins) THEN ast
    ELSE ChainFrom(i + 1, ApplyPlugin(Plugins[i], ast, cfg), cfg)
Expected(entry, cfg) == Stylesheet(ChainFrom(1, Parse(entry), cfg))
\* an output file is not what a run on the current sources would write
StaleJs == ~fs[JsEntry].ok \/ fs[JsOutput] # Bundle(fs[JsEntry], TRUE)
StaleCss == ~fs[CssEntry].ok \/ fs[CssOutput] # Expected(fs[CssEntry], fs[TailwindConfig])
\* the default series is over and both watchers are registered and idle
AllIdle ==
    /\ invoked = "default" /\ outcome["cli"] = "done"
    /\ \A w \in Watchers : watch[w].registered /\ Quiescent(w)
\* the step is no save of a file under a watcher's globs
NoHit == \A w \in Watchers : events'[w].hit = events[w].hit

\* C14 as stated: with both watchers idle and an output stale, the output
\* stays stale until a save of a file under a watcher's globs.
C14_Original == [][AllIdle /\ (StaleJs \/ StaleCss) /\ NoHit => (StaleJs \/ StaleCss)']_vars
\* C14 amended: a save made before a watcher is registered arms no timer
\* and starts no run; with both watchers idle, until a save of a file under
\* a watcher's globs no run starts and no output file is rewritten (a
\* stale output stays as it is, whatever happens to the sources).
C14_Missed ==
    [][/\ invoked = "default" =>
              \A w \in Watchers :
                  /\ ~watch[w].registered => ~watch[w].timer /\ ~watch[w].running
                  /\ events[w].hit = 0 => ~watch[w].timer /\ watch[w].starts = 0
       /\ AllIdle /\ NoHit =>
              /\ AllIdle'
              /\ \A f \in OutputFiles : fs'[f] = fs[f]
              /\ \A w \in Watchers : watch'[w].starts = watch[w].starts]_vars
C14_Witness ==
    /\ AllIdle /\ edits = budget
    /\ \A w \in Watchers : watch[w].starts = 0 /\ events[w].hit = 0
    /\ fs[CssEntry].ok /\ fs[TailwindConfig] = Src(TRUE, 2)
    /\ fs[CssOutput] = Expected(fs[CssEntry], Src(TRUE, 1))
====
